---- MODULE Spec2Model ----
(***************************************************************************)
(* Persistent trie of PersistentTrie.cpp: immutable nodes held through     *)
(* shared pointers, versions (Trie handles) produced by insert / remove    *)
(* with path copying.  Nodes live in a heap indexed by node identity, so   *)
(* that sharing, copying and pointer equality are observable.              *)
(***************************************************************************)
EXTENDS Naturals, Sequences, FiniteSets

(* ------------------------------ bounds -------------------------------- *)

\* number of insert / remove calls the driver performs
MaxOps == 3

\* characters of keys
Chars == {"a", "b"}

\* std::string keys: "", "a", "b", "aa", "ab": the empty key, a key with two
\* extensions that are siblings, and a key on another branch
Keys == {<<>>, <<"a">>, <<"b">>, <<"a", "a">>, <<"a", "b">>}

\* template arguments T used with insert<T> / search<T>
Types == {"int", "string"}

\* values of each type handed to insert<T>
ValuesOf(T) == IF T = "int" THEN {"12", "123"} ELSE {"xyz"}

(* ------------------------------- nodes -------------------------------- *)

\* nullptr
Null == 0

\* a default-constructed Children map
NoChildren == [c \in {} |-> Null]

\* dynamic type of a plain node
PlainType == "TrieNode"

\* TrieNode(children): isEndOfWord keeps its default, false
TrieNode(children) ==
    [children |-> children, isEndOfWord |-> FALSE, type |-> PlainType, value |-> ""]

\* mutant of TrieValueNode: the constructor leaves isEndOfWord false
TrieValueNodeUnflagged(children, T, x) ==
    [children |-> children, isEndOfWord |-> FALSE, type |-> T, value |-> x]

\* TrieValueNode<T>(children, value): both constructors set isEndOfWord
TrieValueNode(children, T, x) ==
    [children |-> children, isEndOfWord |-> TRUE, type |-> T, value |-> x]

\* mutant of CopyOf: the copy of a plain node drops the children
CopyOfDropsChildren(node) ==
    IF node.type = PlainType
    THEN TrieNode(NoChildren)
    ELSE TrieValueNode(node.children, node.type, node.value)

\* virtual copy(): TrieNode::copy or TrieValueNode<T>::copy by dynamic type
CopyOf(node) ==
    IF node.type = PlainType
    THEN TrieNode(node.children)
    ELSE TrieValueNode(node.children, node.type, node.value)

(* -------------------------------- heap -------------------------------- *)

\* the address a fresh allocation gets: the lowest one not in use
FreshId(h) ==
    CHOOSE i \in 1..(Cardinality(DOMAIN h) + 1) :
        /\ i \notin DOMAIN h
        /\ \A j \in 1..(i - 1) : j \in DOMAIN h

\* make_shared / make_unique: a new node, returned with its address
Alloc(h, node) ==
    LET id == FreshId(h)
    IN  [h |-> [i \in DOMAIN h \cup {id} |-> IF i = id THEN node ELSE h[i]],
         r |-> id]

\* the last owner of a node goes out of scope: the node is destroyed
Free(h, id) == [i \in DOMAIN h \ {id} |-> h[i]]

\* cur->copy() held by a fresh owner
Clone(h, id) == Alloc(h, CopyOf(h[id]))

\* ret->children[k] = next
SetChild(h, id, k, child) ==
    [h EXCEPT ![id].children =
        [c \in (DOMAIN @) \cup {k} |-> IF c = k THEN child ELSE @[c]]]

\* ret->children.erase(k)
EraseChild(h, id, k) ==
    [h EXCEPT ![id].children = [c \in (DOMAIN @) \ {k} |-> @[c]]]

\* cur && cur->children.find(k) != cur->children.end()
HasChild(h, cur, k) == cur # Null /\ k \in DOMAIN h[cur].children

(* ------------------------------- search ------------------------------- *)

\* what search returns: nullptr, or a pointer to the stored value
NotFound == [found |-> FALSE, value |-> ""]
Found(x) == [found |-> TRUE, value |-> x]

\* the loop of search: follow key[i..] from cur; ok = FALSE on a missing edge
RECURSIVE Walk(_, _, _, _)
Walk(h, cur, key, i) ==
    IF i > Len(key)
    THEN [ok |-> TRUE, node |-> cur]
    ELSE IF HasChild(h, cur, key[i])
         THEN Walk(h, h[cur].children[key[i]], key, i + 1)
         ELSE [ok |-> FALSE, node |-> Null]

\* mutant of DynamicCast: a static cast, any value node passes
StaticCast(h, cur, T) == cur # Null /\ h[cur].type # PlainType

\* dynamic_cast<const TrieValueNode<T>*>(cur.get()) is not null
DynamicCast(h, cur, T) == cur # Null /\ h[cur].type = T

\* Trie::search<T>(key) on the version whose root is root
Search(h, root, key, T) ==
    LET w == Walk(h, root, key, 1)
    IN  IF ~w.ok THEN NotFound
        ELSE IF DynamicCast(h, w.node, T) /\ h[w.node].isEndOfWord
             THEN Found(h[w.node].value)
             ELSE NotFound

(* ------------------------------- insert ------------------------------- *)

\* mutant of InsertLeaf: the children of the node already there are dropped
InsertLeafDropsChildren(h, cur, T, x) ==
    Alloc(h, TrieValueNode(NoChildren, T, x))

\* idx == size in insert's dfs: the new value node, with cur's children if any
InsertLeaf(h, cur, T, x) ==
    IF cur # Null
    THEN Alloc(h, TrieValueNode(h[cur].children, T, x))
    ELSE Alloc(h, TrieValueNode(NoChildren, T, x))

\* mutant of InsertClone: the node of the input version is written in place
InsertCloneInPlace(h, t) ==
    IF t # Null THEN [h |-> h, r |-> t] ELSE Alloc(h, TrieNode(NoChildren))

\* ret = t ? t->copy() : make_shared<TrieNode>()
InsertClone(h, t) ==
    IF t # Null THEN Clone(h, t) ELSE Alloc(h, TrieNode(NoChildren))

\* the dfs lambda of insert; idx counts from 1, size is Len(key)
RECURSIVE InsertDfs(_, _, _, _, _, _)
InsertDfs(h, key, T, x, idx, cur) ==
    IF idx = Len(key) + 1
    THEN InsertLeaf(h, cur, T, x)
    ELSE LET k    == key[idx]
             t    == cur
             down == IF HasChild(h, cur, k) THEN h[cur].children[k] ELSE Null
             next == InsertDfs(h, key, T, x, idx + 1, down)
             ret  == InsertClone(next.h, t)
         IN  [h |-> SetChild(ret.h, ret.r, k, next.r), r |-> ret.r]

\* Trie::insert<T>(key, value): the heap after the call and the new root
Insert(h, root, key, T, x) == InsertDfs(h, key, T, x, 1, root)

(* ------------------------------- remove ------------------------------- *)

\* mutant of RemoveLeaf: the node is copied with its value
RemoveLeafKeepsValue(h, cur) == Alloc(h, CopyOf(h[cur]))

\* mutant of RemoveLeaf: the replacement node has no children
RemoveLeafDropsChildren(h, cur) == Alloc(h, TrieNode(NoChildren))

\* idx == size in remove's dfs: a plain node with cur's children
RemoveLeaf(h, cur) == Alloc(h, TrieNode(h[cur].children))

\* mutant of Dead: nothing is ever pruned
NeverDead(node) == FALSE

\* children.empty() && !isEndOfWord
Dead(node) == DOMAIN node.children = {} /\ ~node.isEndOfWord

\* the dfs lambda of remove; r = Null is its nullptr result.  A node whose
\* last owner is a local of the lambda is destroyed when the lambda returns.
RECURSIVE RemoveDfs(_, _, _, _)
RemoveDfs(h, key, idx, cur) ==
    IF idx = Len(key) + 1
    THEN RemoveLeaf(h, cur)
    ELSE LET k   == key[idx]
             ret == Clone(h, cur)
         IN  IF ~HasChild(h, cur, k)
             THEN [h |-> Free(ret.h, ret.r), r |-> Null]
             ELSE LET next == RemoveDfs(ret.h, key, idx + 1, h[cur].children[k])
                  IN  IF next.r = Null
                      THEN [h |-> Free(next.h, ret.r), r |-> Null]
                      ELSE IF Dead(next.h[next.r])
                           THEN [h |-> Free(EraseChild(next.h, ret.r, k), next.r),
                                 r |-> ret.r]
                           ELSE [h |-> SetChild(next.h, ret.r, k, next.r),
                                 r |-> ret.r]

\* mutant of RemoveRoot: an emptied root is kept as the root
RemoveRootKeepsDead(root, res) ==
    IF res.r = Null THEN [h |-> res.h, r |-> root] ELSE res

\* the end of remove: Trie(nullptr), Trie(this->root) or Trie(ret)
RemoveRoot(root, res) ==
    IF res.r # Null /\ Dead(res.h[res.r])
    THEN [h |-> Free(res.h, res.r), r |-> Null]
    ELSE IF res.r = Null
         THEN [h |-> res.h, r |-> root]
         ELSE res

\* Trie::remove(key): the heap after the call and the new root
Remove(h, root, key) ==
    IF root = Null
    THEN [h |-> h, r |-> Null]
    ELSE RemoveRoot(root, RemoveDfs(h, key, 1, root))

(* ------------------------------- driver ------------------------------- *)

\* heap:     every live node, by address
\* versions: the Trie handles the caller holds, oldest first; the last one
\*           is the variable trie of main
\* last:     the arguments and the result of the latest call, with the heap
\*           as it was when the call started
\* amap:     the key -> (type, value) map the calls so far describe
VARIABLES heap, versions, last, amap

vars == <<heap, versions, last, amap>>

Absent == [type |-> "none", value |-> ""]

\* Trie trie;
Init ==
    /\ heap = [i \in {} |-> TrieNode(NoChildren)]
    /\ versions = <<Null>>
    /\ last = [op |-> "none", key |-> <<>>, type |-> "none", value |-> "",
               from |-> Null, to |-> Null, pre |-> [i \in {} |-> TrieNode(NoChildren)]]
    /\ amap = [k \in Keys |-> Absent]

\* the version the next call is made on
trie == versions[Len(versions)]

\* trie.insert<T>(key, x), the result kept as a further handle
DoInsert ==
    /\ Len(versions) <= MaxOps
    /\ \E key \in Keys, T \in Types :
         \E x \in ValuesOf(T) :
            LET res == Insert(heap, trie, key, T, x)
            IN  /\ heap' = res.h
                /\ versions' = Append(versions, res.r)
                /\ last' = [op |-> "insert", key |-> key, type |-> T, value |-> x,
                            from |-> trie, to |-> res.r, pre |-> heap]
                /\ amap' = [amap EXCEPT ![key] = [type |-> T, value |-> x]]

\* trie.remove(key), the result kept as a further handle
DoRemove ==
    /\ Len(versions) <= MaxOps
    /\ \E key \in Keys :
            LET res == Remove(heap, trie, key)
            IN  /\ heap' = res.h
                /\ versions' = Append(versions, res.r)
                /\ last' = [op |-> "remove", key |-> key, type |-> "none", value |-> "",
                            from |-> trie, to |-> res.r, pre |-> heap]
                /\ amap' = [amap EXCEPT ![key] = Absent]

Next == DoInsert \/ DoRemove

Spec == Init /\ [][Next]_vars

(* ----------------------- vocabulary of the claims --------------------- *)

\* the nodes reachable from root
RECURSIVE Reach(_, _)
Reach(h, root) ==
    IF root = Null THEN {}
    ELSE {root} \cup UNION {Reach(h, h[root].children[c]) : c \in DOMAIN h[root].children}

\* the nodes met when following key from cur, as far as the edges exist
RECURSIVE PathSeq(_, _, _, _)
PathSeq(h, cur, key, i) ==
    IF cur = Null THEN <<>>
    ELSE <<cur>> \o (IF i <= Len(key) /\ key[i] \in DOMAIN h[cur].children
                     THEN PathSeq(h, h[cur].children[key[i]], key, i + 1)
                     ELSE <<>>)

Range(f) == {f[i] : i \in DOMAIN f}

\* a node with no children that ends no key
IsDeadNode(node) == node.children = NoChildren /\ node.isEndOfWord = FALSE

\* the version holds a value of some type at key
Stores(h, root, key) == \E T \in Types : Search(h, root, key, T).found

\* p is a proper prefix of k
ProperPrefix(p, k) == Len(p) < Len(k) /\ SubSeq(k, 1, Len(p)) = p

\* the latest call, its input version v (in the heap of the call's start) and
\* its result
Called(op) == last.op = op
WasStored(key) == Stores(last.pre, last.from, key)
Before(key, T) == Search(last.pre, last.from, key, T)
After(key, T) == Search(heap, last.to, key, T)
Created == DOMAIN heap \ DOMAIN last.pre

(* ------------------------------- claims ------------------------------- *)

\* C1: after insert<T>(v, k, x), search<T> at k on the result returns x,
\* whatever v held at k.
C1_InsertThenSearch ==
    Called("insert") => After(last.key, last.type) = Found(last.value)

\* C1 witness: an insert at the empty key overwrote a value of another type
C1_Witness ==
    /\ Called("insert")
    /\ last.key = <<>>
    /\ \E U \in Types \ {last.type} : Before(last.key, U).found
    /\ After(last.key, last.type) = Found(last.value)

\* C2: after remove(v, k), search<T> at k on the result is not-found for
\* every type T.
C2_RemoveThenSearch ==
    Called("remove") => \A T \in Types : After(last.key, T) = NotFound

\* C2 witness: a stored key with a longer key below it was removed
C2_Witness ==
    /\ Called("remove")
    /\ WasStored(last.key)
    /\ \E k2 \in Keys : ProperPrefix(last.key, k2) /\ Stores(heap, last.to, k2)
    /\ \A T \in Types : After(last.key, T) = NotFound

\* C3: a call changes no node that existed when it started; the version it
\* was made on keeps its root and answers every search as before the call.
C3_Immutable ==
    /\ \A n \in DOMAIN last.pre : n \in DOMAIN heap /\ heap[n] = last.pre[n]
    /\ ~Called("none") =>
          /\ versions[Len(versions) - 1] = last.from
          /\ \A k2 \in Keys, T \in Types :
                Search(heap, last.from, k2, T) = Before(k2, T)

\* C3 witness: a call on a non-empty version built new nodes and another root
C3_Witness ==
    /\ ~Called("none")
    /\ last.from # Null
    /\ last.to # last.from
    /\ Created # {}
    /\ \E k2 \in Keys : Stores(heap, last.from, k2) /\ ~Stores(heap, last.to, k2)

\* C4: remove of a key at which v stores no value returns v's own root, and
\* keeps no node it created.
C4_RemoveAbsentSameRoot ==
    (Called("remove") /\ ~WasStored(last.key)) =>
        (last.to = last.from /\ Created = {})

\* C5: no node reachable from the root of the version a call returns (or of
\* the empty version) is dead: without children and not the end of a key.
C5_NoDeadNodes ==
    \A n \in Reach(heap, trie) : ~IsDeadNode(heap[n])

\* C5 witness: a remove pruned two levels and the root stayed
C5_Witness ==
    /\ Called("remove")
    /\ Len(last.key) = 2
    /\ WasStored(last.key)
    /\ last.to # Null
    /\ last.key[1] \in DOMAIN last.pre[last.from].children
    /\ last.key[1] \notin DOMAIN heap[last.to].children

\* C6: where the latest version stores a value of type U at a key, search<T> for any
\* other type T is not-found; after an insert<U> at k, the other types are
\* not-found at k.
C6_TypeChecked ==
    /\ \A k \in Keys : \A T \in Types, U \in Types :
          (U # T /\ Search(heap, trie, k, U).found)
              => Search(heap, trie, k, T) = NotFound
    /\ Called("insert") =>
          \A T \in Types \ {last.type} : After(last.key, T) = NotFound

\* C6 witness: one version holds an int and a string at different keys, and
\* the latest insert replaced a value by one of another type
C6_Witness ==
    /\ Called("insert")
    /\ \E T \in Types \ {last.type} :
          Before(last.key, T).found /\ After(last.key, T) = NotFound
    /\ \E k1 \in Keys, k2 \in Keys :
          /\ k1 # k2
          /\ After(k1, "int").found /\ After(k2, "string").found
          /\ After(k1, "string") = NotFound /\ After(k2, "int") = NotFound

\* C7: remove of a key at which v stores no value changes the result of no
\* search; remove on the empty version returns the empty version.
C7_RemoveAbsentNoOp ==
    /\ (Called("remove") /\ ~WasStored(last.key)) =>
          \A k2 \in Keys, T \in Types : After(k2, T) = Before(k2, T)
    /\ (Called("remove") /\ last.from = Null) => last.to = Null

\* C7 witness: the removed key held nothing but is a prefix of a stored key
C7_Witness ==
    /\ Called("remove")
    /\ ~WasStored(last.key)
    /\ \E k2 \in Keys : ProperPrefix(last.key, k2) /\ WasStored(k2)
    /\ \E k3 \in Keys : ~ProperPrefix(last.key, k3) /\ WasStored(k3)

\* C8: after insert, or remove of a stored key, the nodes of the result that
\* the call created lie on the path of the key, at most |k|+1 of them; all
\* other nodes of the result are nodes of v; an edge of a created node for a
\* character other than the key's at that depth is the edge of v's node at
\* that place, and a created node with no counterpart in v has no such edge.
C8_PathCopying ==
    (Called("insert") \/ (Called("remove") /\ WasStored(last.key))) =>
        LET newP == PathSeq(heap, last.to, last.key, 1)
            oldP == PathSeq(last.pre, last.from, last.key, 1)
        IN  /\ Created \cap Reach(heap, last.to) \subseteq Range(newP)
            /\ Cardinality(Created) <= Len(last.key) + 1
            /\ Reach(heap, last.to) \ Created \subseteq Reach(last.pre, last.from)
            /\ \A d \in 1..Len(newP) : \A c \in Chars :
                  (newP[d] \in Created /\ ~(d <= Len(last.key) /\ c = last.key[d])) =>
                      IF d <= Len(oldP)
                      THEN /\ c \in DOMAIN heap[newP[d]].children
                                <=> c \in DOMAIN last.pre[oldP[d]].children
                           /\ c \in DOMAIN heap[newP[d]].children =>
                                heap[newP[d]].children[c] = last.pre[oldP[d]].children[c]
                      ELSE c \notin DOMAIN heap[newP[d]].children

\* C8 witness: an insert copied a plain root and a node below it, each of
\* which kept an edge into v
C8_Witness ==
    /\ Called("insert")
    /\ Len(last.key) = 2
    /\ last.from # Null
    /\ last.pre[last.from].type = PlainType
    /\ Cardinality(Created) = 3
    /\ \E c \in Chars \ {last.key[1]} :
          /\ c \in DOMAIN heap[last.to].children
          /\ heap[last.to].children[c] = last.pre[last.from].children[c]
    /\ \E c \in Chars \ {last.key[2]} :
          c \in DOMAIN heap[heap[last.to].children[last.key[1]]].children

\* C9: the root of the latest version is null exactly when it stores no key;
\* insert never returns a null root.
C9_CanonicalEmpty ==
    /\ trie = Null <=> ~(\E k \in Keys : Stores(heap, trie, k))
    /\ Called("insert") => last.to # Null

\* C9 witness: the empty key, stored alone, was removed
C9_Witness ==
    /\ Called("remove")
    /\ last.key = <<>>
    /\ last.from # Null
    /\ WasStored(last.key)
    /\ last.to = Null

\* C10: after every call, search<T> at every key on the latest version is
\* the lookup in the abstract map: found with the value iff the map holds
\* the key with type T.
C10_Refinement ==
    \A k2 \in Keys, T \in Types :
        Search(heap, trie, k2, T) =
            IF amap[k2].type = T THEN Found(amap[k2].value) ELSE NotFound

\* C10 witness: a stored key of length 2 was removed and its branch pruned,
\* while the map and the trie still hold a key on another branch
C10_Witness ==
    /\ Called("remove")
    /\ Len(last.key) = 2
    /\ WasStored(last.key)
    /\ amap[last.key] = Absent
    /\ \E k3 \in Keys :
          /\ Len(k3) >= 1 /\ k3[1] # last.key[1]
          /\ amap[k3] # Absent
          /\ Search(heap, trie, k3, amap[k3].type) = Found(amap[k3].value)

====
